---- MODULE Spec2Model ----
(***************************************************************************)
(* Gateway resilience layer of the governance dashboard: the per-upstream  *)
(* circuit breakers and the LLM proxy of the integration service, and the  *)
(* rate limiter, CSRF token codec and middleware pipeline of the API       *)
(* gateway.                                                                *)
(*                                                                         *)
(* Time.  std::time::Instant is modelled as an integer number of ticks,    *)
(* TicksPerSec ticks to the second, so that Duration::as_secs (which       *)
(* truncates to whole seconds) is a real conversion.  chrono's UTC epoch   *)
(* timestamp is a separate clock in whole seconds.                         *)
(***************************************************************************)
EXTENDS Integers, Sequences, FiniteSets, TLC

VARIABLES
    breakers,   \* CircuitBreakers: HashMap<String, CircuitBreakerState>
    now,        \* the monotonic clock (Instant::now()), in ticks
    streak,     \* history: record_failure calls per key since its last record_success
    reqs,       \* the proxy_llm_request calls in progress, each with its position
    utc,        \* the wall clock (chrono::Utc::now().timestamp()), in seconds
    secret,     \* CsrfProtection.secret
    held,       \* the CSRF token a client holds: minted, altered or made up
    store,      \* RateLimiter.store: HashMap<String, RateLimitEntry>
    limiter,    \* RateLimiter.max_requests and RateLimiter.window_secs
    winCalls,   \* history: check_rate_limit calls per key in its current window
    usage,      \* the provider, model and token usage calculate_cost is called with
    calls,      \* the check_rate_limit calls in progress, each with its position
    lastOp      \* observation: the operation of the last step, its inputs and result

vars == <<breakers, now, streak, reqs, utc, secret, held, store, limiter, winCalls,
          usage, calls, lastOp>>

\* What the steps of one component leave alone.
notBreaker == <<reqs, utc, secret, held, store, limiter, winCalls, usage, calls>>
notProxy == <<streak, utc, secret, held, store, limiter, winCalls, usage, calls>>
notCsrf == <<breakers, now, streak, reqs, store, limiter, winCalls, usage, calls>>
notRate == <<breakers, streak, reqs, utc, secret, held, usage, calls>>

\* Option<T>: None is the empty sequence, Some(x) the sequence of x alone.
None == << >>
Some(x) == <<x>>
unwrap(o) == o[1]

(***************************************************************************)
(* Bounds of the model.                                                    *)
(***************************************************************************)
TicksPerSec == 2
MaxNowSecs == 64
MaxFailures == 6
\* The width of i64, narrowed: the largest value.  Arithmetic wraps at it.
I64Max == 536870911
\* The largest max_requests a limiter is built with, and how long it is run.
MaxRequests == 2
RateMaxNowSecs == 2

(***************************************************************************)
(* Program constants.                                                      *)
(***************************************************************************)
FailureThreshold == 5
OpenTimeoutSecs == 30
CsrfMaxAge == 86400

MaxNow == MaxNowSecs * TicksPerSec

\* Clock advances that straddle the open timeout: 30s less a tick, 30s exactly,
\* 30s plus a tick, and 31s.
Deltas ==
    { OpenTimeoutSecs * TicksPerSec - 1, OpenTimeoutSecs * TicksPerSec,
      OpenTimeoutSecs * TicksPerSec + 1, (OpenTimeoutSecs + 1) * TicksPerSec }

----------------------------------------------------------------------------
(***************************************************************************)
(* Circuit breaker registry (integration-service/handlers/integrations.rs) *)
(***************************************************************************)

\* format!("{}:{}", req.provider, req.model)
provider_key(provider, model) == provider \o ":" \o model

BreakerKeys ==
    { provider_key("openai", "gpt-4"), provider_key("anthropic", "claude-3-opus") }

CircuitState == {"Closed", "Open", "HalfOpen"}

\* The value or_insert puts in the map for a key that has no entry.
NewCircuitBreakerState ==
    [failures |-> 0, last_failure_time |-> None, state |-> "Closed"]

\* breakers_map.entry(key).or_insert(CircuitBreakerState { .. })
or_insert(map, key) ==
    IF key \in DOMAIN map THEN map ELSE map @@ (key :> NewCircuitBreakerState)

\* Instant::elapsed().as_secs(): whole seconds, truncated.
elapsed_as_secs(instant, t) == (t - instant) \div TicksPerSec

check_circuit_breaker_at_timeout(map, key, t) ==
    LET m1 == or_insert(map, key)
        st == m1[key]
    IN  CASE st.state = "Closed" -> [map |-> m1, ret |-> TRUE]
          [] st.state = "Open" ->
                IF /\ st.last_failure_time # None
                   /\ elapsed_as_secs(unwrap(st.last_failure_time), t) >= OpenTimeoutSecs
                THEN [map |-> [m1 EXCEPT ![key].state = "HalfOpen"], ret |-> TRUE]
                ELSE [map |-> m1, ret |-> FALSE]
          [] st.state = "HalfOpen" -> [map |-> m1, ret |-> TRUE]

check_circuit_breaker_no_timeout(map, key, t) ==
    LET m1 == or_insert(map, key)
    IN  [map |-> m1, ret |-> m1[key].state # "Open"]

\* check_circuit_breaker: the map afterwards and the value returned.
check_circuit_breaker(map, key, t) ==
    LET m1 == or_insert(map, key)
        st == m1[key]
    IN  CASE st.state = "Closed" -> [map |-> m1, ret |-> TRUE]
          [] st.state = "Open" ->
                IF /\ st.last_failure_time # None
                   /\ elapsed_as_secs(unwrap(st.last_failure_time), t) > OpenTimeoutSecs
                THEN [map |-> [m1 EXCEPT ![key].state = "HalfOpen"], ret |-> TRUE]
                ELSE [map |-> m1, ret |-> FALSE]
          [] st.state = "HalfOpen" -> [map |-> m1, ret |-> TRUE]

\* record_success: only an existing entry is reset (get_mut).
record_success(map, key) ==
    IF key \in DOMAIN map
    THEN [map EXCEPT ![key] =
            [failures |-> 0, last_failure_time |-> None, state |-> "Closed"]]
    ELSE map

record_failure_off_by_one(map, key, t) ==
    LET m1 == or_insert(map, key)
        f  == m1[key].failures + 1
    IN  [m1 EXCEPT ![key] =
            [failures |-> f, last_failure_time |-> Some(t),
             state |-> IF f > FailureThreshold THEN "Open" ELSE @.state]]

record_failure_at_threshold_only(map, key, t) ==
    LET m1 == or_insert(map, key)
        f  == m1[key].failures + 1
    IN  [m1 EXCEPT ![key] =
            [failures |-> f, last_failure_time |-> Some(t),
             state |-> IF f = FailureThreshold THEN "Open" ELSE @.state]]

record_failure_global(map, key, t) ==
    LET m1 == or_insert(map, key)
    IN  [k \in DOMAIN m1 |->
            LET f == m1[k].failures + 1
            IN  [failures |-> f, last_failure_time |-> Some(t),
                 state |-> IF f >= FailureThreshold THEN "Open" ELSE m1[k].state]]

\* record_failure: count, stamp, and open at the threshold.
record_failure(map, key, t) ==
    LET m1 == or_insert(map, key)
        f  == m1[key].failures + 1
    IN  [m1 EXCEPT ![key] =
            [failures |-> f, last_failure_time |-> Some(t),
             state |-> IF f >= FailureThreshold THEN "Open" ELSE @.state]]

\* The state and failure count a key has, an absent key being one that
\* or_insert would create Closed with 0 failures.
StateOf(map, key) == IF key \in DOMAIN map THEN map[key].state ELSE "Closed"
FailuresOf(map, key) == IF key \in DOMAIN map THEN map[key].failures ELSE 0
LastFailureOf(map, key) ==
    IF key \in DOMAIN map THEN map[key].last_failure_time ELSE None

----------------------------------------------------------------------------
(***************************************************************************)
(* The breaker operations called in any order, with time passing between.  *)
(***************************************************************************)

EmptyMap == [k \in {} |-> NewCircuitBreakerState]

BreakerInit ==
    /\ breakers = EmptyMap
    /\ calls = << >>
    /\ usage = None
    /\ now = 0
    /\ streak = [k \in BreakerKeys |-> 0]
    /\ reqs = << >>
    /\ utc = 0
    /\ secret = << >>
    /\ held = None
    /\ store = << >>
    /\ limiter = << >>
    /\ winCalls = << >>
    /\ lastOp = [op |-> "init"]

CheckCircuitBreaker(key) ==
    LET r == check_circuit_breaker(breakers, key, now)
    IN  /\ breakers' = r.map
        /\ lastOp' = [op |-> "check_circuit_breaker", key |-> key, ret |-> r.ret,
                      was |-> StateOf(breakers, key),
                      since |-> LastFailureOf(breakers, key)]
        /\ UNCHANGED <<now, streak, notBreaker>>

RecordSuccess(key) ==
    /\ breakers' = record_success(breakers, key)
    /\ streak' = [streak EXCEPT ![key] = 0]
    /\ lastOp' = [op |-> "record_success", key |-> key,
                  was |-> StateOf(breakers, key)]
    /\ UNCHANGED <<now, notBreaker>>

RecordFailure(key) ==
    /\ FailuresOf(breakers, key) < MaxFailures
    /\ breakers' = record_failure(breakers, key, now)
    /\ streak' = [streak EXCEPT ![key] = @ + 1]
    /\ lastOp' = [op |-> "record_failure", key |-> key,
                  was |-> StateOf(breakers, key)]
    /\ UNCHANGED <<now, notBreaker>>

AdvanceTime(d) ==
    /\ now + d <= MaxNow
    /\ now' = now + d
    /\ lastOp' = [op |-> "advance", by |-> d]
    /\ UNCHANGED <<breakers, streak, notBreaker>>

BreakerNext ==
    \/ \E key \in BreakerKeys : CheckCircuitBreaker(key)
    \/ \E key \in BreakerKeys : RecordSuccess(key)
    \/ \E key \in BreakerKeys : RecordFailure(key)
    \/ \E d \in Deltas : AdvanceTime(d)

SpecBreaker == BreakerInit /\ [][BreakerNext]_vars

\* The same operations where the clock does not stop short of the model's
\* horizon and requests keep coming for every key, so that each key is
\* checked again and again.
SpecBreakerLive ==
    /\ SpecBreaker
    /\ WF_vars(\E d \in Deltas : AdvanceTime(d))
    /\ \A key \in BreakerKeys : WF_vars(CheckCircuitBreaker(key))

----------------------------------------------------------------------------
(***************************************************************************)
(* calculate_cost (integration-service/handlers/integrations.rs).          *)
(*                                                                         *)
(* Every price of the table is a multiple of a quarter of a dollar per     *)
(* million tokens, so a price is modelled by its number of quarters and a  *)
(* cost by its exact number of quarters of a millionth of a dollar: a      *)
(* cost of tokens * price then is the cost of (tokens / 1e6) * price       *)
(* dollars.  Rounding of the f64 operations is not modelled.               *)
(***************************************************************************)

\* The price of `whole` dollars and `quarters` quarters, in quarters.
f64(whole, quarters) == 4 * whole + quarters

\* An amount of dollars as a cost, in quarters of a millionth of a dollar.
Dollars(whole, quarters) == f64(whole, quarters) * 1000000

calculate_cost_by_model(provider, model, prompt_tokens, completion_tokens) ==
    LET prices ==
            CASE model = "gpt-4" -> << f64(30, 0), f64(60, 0) >>
              [] model = "gpt-4-turbo" -> << f64(10, 0), f64(30, 0) >>
              [] model = "gpt-3.5-turbo" -> << f64(0, 2), f64(1, 2) >>
              [] model = "claude-3-opus" -> << f64(15, 0), f64(75, 0) >>
              [] model = "claude-3-sonnet" -> << f64(3, 0), f64(15, 0) >>
              [] model = "claude-3-haiku" -> << f64(0, 1), f64(1, 1) >>
              [] OTHER -> << f64(1, 0), f64(2, 0) >>
    IN  prompt_tokens * prices[1] + completion_tokens * prices[2]

calculate_cost(provider, model, prompt_tokens, completion_tokens) ==
    LET pair == << provider, model >>
        prices ==
            CASE pair = << "openai", "gpt-4" >> -> << f64(30, 0), f64(60, 0) >>
              [] pair = << "openai", "gpt-4-turbo" >> -> << f64(10, 0), f64(30, 0) >>
              [] pair = << "openai", "gpt-3.5-turbo" >> -> << f64(0, 2), f64(1, 2) >>
              [] pair = << "anthropic", "claude-3-opus" >> -> << f64(15, 0), f64(75, 0) >>
              [] pair = << "anthropic", "claude-3-sonnet" >> -> << f64(3, 0), f64(15, 0) >>
              [] pair = << "anthropic", "claude-3-haiku" >> -> << f64(0, 1), f64(1, 1) >>
              [] OTHER -> << f64(1, 0), f64(2, 0) >>
        input_cost == prompt_tokens * prices[1]
        output_cost == completion_tokens * prices[2]
    IN  input_cost + output_cost

----------------------------------------------------------------------------
(***************************************************************************)
(* The LLM proxy: POST /integrations/proxy (proxy_llm_request).  Each call *)
(* runs on its own task; the steps below are its stretches between the     *)
(* points where it can be suspended (the lock of the breaker map, the      *)
(* upstream call, the two database writes).                                *)
(***************************************************************************)

\* The arms of the match on req.provider that call an adapter.
SupportedProviders == {"openai", "anthropic", "google", "azure", "bedrock"}

\* Adapters that are stubs returning Err(Internal(".. not yet implemented")).
StubProviders == {"google", "azure", "bedrock"}

\* AppError::status_code
status_code(err) ==
    CASE err = "Database" -> 500
      [] err = "Redis" -> 500
      [] err = "Auth" -> 401
      [] err = "Validation" -> 400
      [] err = "NotFound" -> 404
      [] err = "Internal" -> 500
      [] err = "Unauthorized" -> 401
      [] err = "Forbidden" -> 403
      [] err = "BadRequest" -> 400

\* A response body: a JSON object, as a record of its members, or plain text.
json(obj) == [type |-> "json", json |-> obj]
text(str) == [type |-> "text", text |-> str]

\* StatusCode::to_string: the code and its canonical reason.
status_to_string(status) ==
    CASE status = 400 -> "400 Bad Request"
      [] status = 401 -> "401 Unauthorized"
      [] status = 403 -> "403 Forbidden"
      [] status = 404 -> "404 Not Found"
      [] status = 500 -> "500 Internal Server Error"

\* Display of AppError (the #[error(..)] attributes).
display(err, msg) ==
    CASE err = "Database" -> "Database error: " \o msg
      [] err = "Redis" -> "Redis error: " \o msg
      [] err = "Auth" -> "Authentication error: " \o msg
      [] err = "Validation" -> "Validation error: " \o msg
      [] err = "NotFound" -> "Not found: " \o msg
      [] err = "Internal" -> "Internal server error: " \o msg
      [] err = "Unauthorized" -> "Unauthorized"
      [] err = "Forbidden" -> "Forbidden"
      [] err = "BadRequest" -> "Bad request: " \o msg

\* AppError::error_response: the JSON of ErrorResponse {error, message}.
error_response(err, msg) ==
    json([error |-> status_to_string(status_code(err)), message |-> display(err, msg)])

\* Result<_, AppError> as the handler returns it, and the response actix makes
\* of it (error_response for an Err).
Ok(body) == [ok |-> TRUE, status |-> 200, body |-> body]
Err(err, msg) ==
    [ok |-> FALSE, err |-> err, msg |-> msg, status |-> status_code(err),
     body |-> error_response(err, msg)]

check_policies_no_ceiling(max_tokens) == Ok("unit")

\* The ProxyResponse an adapter builds from the upstream's answer (its id and
\* choices are left out): the usage the upstream reports, and cost 0.0.
ProxyResponse(provider, model, tokens) ==
    [provider |-> provider, model |-> model,
     usage |-> [prompt_tokens |-> tokens[1], completion_tokens |-> tokens[2],
                total_tokens |-> tokens[1] + tokens[2]],
     cost |-> 0]

\* ApiResponse::success
ApiResponse_success(data) == [success |-> TRUE, data |-> Some(data), message |-> None]

\* The arguments of record_metrics in the two arms of the match (lines
\* 106-120 and 138-148).
metrics_of(req, result) ==
    IF result.ok
    THEN [tokens_in |-> result.body.usage.prompt_tokens,
          tokens_out |-> result.body.usage.completion_tokens,
          cost |-> calculate_cost(req.provider, req.model,
                                  result.body.usage.prompt_tokens,
                                  result.body.usage.completion_tokens),
          status |-> "success"]
    ELSE [tokens_in |-> 0, tokens_out |-> 0, cost |-> 0, status |-> "error"]

\* check_policies: the token ceiling.
check_policies(max_tokens) ==
    IF max_tokens # None /\ unwrap(max_tokens) > 100000
    THEN Err("BadRequest", "Token limit exceeded")
    ELSE Ok("unit")

\* The match on req.provider (lines 89-96): the adapter to call, or the
\* BadRequest of the default arm, for which nothing is called.
dispatch(provider) ==
    IF provider \in SupportedProviders
    THEN [adapter |-> Some(provider)]
    ELSE [adapter |-> None,
          result |-> Err("BadRequest", "Unsupported provider")]

\* The match on the adapter's result (lines 100-153) after its breaker update:
\* record_metrics(..).await? and, in the Ok arm, record_audit_log(..).await?
\* stand before the return, and `?` returns their database error.
respond(result, metrics_ok, audit_ok) ==
    IF result.ok
    THEN IF ~metrics_ok THEN Err("Database", "record_metrics")
         ELSE IF ~audit_ok THEN Err("Database", "record_audit_log")
         ELSE Ok(json(ApiResponse_success(result.body)))
    ELSE IF ~metrics_ok THEN Err("Database", "record_metrics")
         ELSE result

\* The requests the model sends: provider and model, and max_tokens.
ProxyTargets == { <<"openai", "gpt-4">>, <<"unknown", "x">> }
MaxTokensValues == { None, Some(100000), Some(100001) }

ReqIds == {"r1", "r2"}

\* The usage an upstream reports: prompt and completion tokens.
UsageValues == { <<0, 0>>, <<1000000, 1000000>> }

Idle == [pc |-> "idle"]

\* The latest clock value of the proxy runs, and the advances: 30s, which is
\* not yet past the open timeout, and 31s, which is.
ProxyMaxNow == (OpenTimeoutSecs + 1) * TicksPerSec
ProxyDeltas == { OpenTimeoutSecs * TicksPerSec, (OpenTimeoutSecs + 1) * TicksPerSec }

ProxyInit ==
    /\ breakers = EmptyMap
    /\ calls = << >>
    /\ usage = None
    /\ now = 0
    /\ streak = [k \in BreakerKeys |-> 0]
    /\ reqs = [r \in ReqIds |-> Idle]
    /\ utc = 0
    /\ secret = << >>
    /\ held = None
    /\ store = << >>
    /\ limiter = << >>
    /\ winCalls = << >>
    /\ lastOp = [op |-> "init"]

\* Lines 75-96, up to the first point where the task waits: the breaker check
\* (under the map's write lock), the policy check, and the match on the
\* provider.  The request ends here if the breaker or the policy refuses it;
\* it waits for the upstream if an adapter was called (pc = "upstream"), and
\* goes on to the breaker update with the default arm's error otherwise
\* (pc = "record").
ProxyBegin(r, target, max_tokens) ==
    /\ reqs[r].pc = "idle"
    /\ LET provider == target[1]
           key == provider_key(provider, target[2])
           c   == check_circuit_breaker(breakers, key, now)
           pol == check_policies(max_tokens)
           d   == dispatch(provider)
           req == [provider |-> provider, model |-> target[2], key |-> key]
       IN  /\ breakers' = c.map
           /\ IF ~c.ret
              THEN /\ reqs' = reqs
                   /\ lastOp' = [op |-> "respond", req |-> req, calls |-> 0,
                                 max_tokens |-> max_tokens,
                                 allowed |-> FALSE, policy |-> None, result |-> None,
                                 response |->
                                    Err("Internal", "Service temporarily unavailable")]
              ELSE IF ~pol.ok
              THEN /\ reqs' = reqs
                   /\ lastOp' = [op |-> "respond", req |-> req, calls |-> 0,
                                 max_tokens |-> max_tokens,
                                 allowed |-> TRUE, policy |-> Some(pol), result |-> None,
                                 response |-> pol]
              ELSE /\ reqs' = [reqs EXCEPT ![r] =
                         IF d.adapter # None
                         THEN [pc |-> "upstream", req |-> req, calls |-> 1,
                               probe |-> StateOf(c.map, key) = "HalfOpen"]
                         ELSE [pc |-> "record", req |-> req, calls |-> 0,
                               probe |-> StateOf(c.map, key) = "HalfOpen",
                               result |-> d.result]]
                   /\ lastOp' = [op |-> "begin", req |-> req, max_tokens |-> max_tokens]
    /\ UNCHANGED <<now, notProxy>>

\* The adapter returns Ok(response) or Err(Internal); the stubs only fail.
ProxyAdapterReturn(r, success) ==
    /\ reqs[r].pc = "upstream"
    /\ success => reqs[r].req.provider \notin StubProviders
    /\ \E result \in
            IF success
            THEN { Ok(ProxyResponse(reqs[r].req.provider, reqs[r].req.model, tokens)) :
                     tokens \in UsageValues }
            ELSE { Err("Internal", "API error") } :
          reqs' = [reqs EXCEPT ![r] =
                     [pc |-> "record", req |-> @.req, calls |-> @.calls,
                      probe |-> @.probe, result |-> result]]
    /\ lastOp' = [op |-> "adapter", req |-> reqs[r].req]
    /\ UNCHANGED <<breakers, now, notProxy>>

\* Lines 100-153: record_success or record_failure (under the write lock),
\* then the metrics and audit writes, and the response.
ProxyRecord(r, metrics_ok, audit_ok) ==
    /\ reqs[r].pc = "record"
    /\ LET key == reqs[r].req.key
           res == reqs[r].result
       IN  /\ ~res.ok => FailuresOf(breakers, key) < MaxFailures
           /\ res.ok \/ audit_ok
           /\ breakers' = IF res.ok THEN record_success(breakers, key)
                          ELSE record_failure(breakers, key, now)
           /\ lastOp' = [op |-> "respond", req |-> reqs[r].req, calls |-> reqs[r].calls,
                         allowed |-> TRUE, policy |-> Some(Ok("unit")),
                         result |-> Some(res),
                         metrics |-> metrics_of(reqs[r].req, res),
                         response |-> respond(res, metrics_ok, audit_ok)]
    /\ reqs' = [reqs EXCEPT ![r] = Idle]
    /\ UNCHANGED <<now, notProxy>>

ProxyTime(d) ==
    /\ now + d <= ProxyMaxNow
    /\ now' = now + d
    /\ lastOp' = [op |-> "advance", by |-> d]
    /\ UNCHANGED <<breakers, reqs, notProxy>>

ProxyNext ==
    \/ \E r \in ReqIds, target \in ProxyTargets, mt \in MaxTokensValues :
          ProxyBegin(r, target, mt)
    \/ \E r \in ReqIds, success \in BOOLEAN : ProxyAdapterReturn(r, success)
    \/ \E r \in ReqIds, metrics_ok \in BOOLEAN, audit_ok \in BOOLEAN :
          ProxyRecord(r, metrics_ok, audit_ok)
    \/ \E d \in ProxyDeltas : ProxyTime(d)

SpecProxy == ProxyInit /\ [][ProxyNext]_vars

----------------------------------------------------------------------------
(***************************************************************************)
(* CSRF token codec (api-gateway/middleware/csrf.rs).                      *)
(*                                                                         *)
(* A string is a sequence of pieces: the character ':', a word without     *)
(* ':', the decimal text of an integer (txt = "" as Display writes it,     *)
(* "+" with a leading plus sign, which parse::<i64> accepts as well), or   *)
(* the base64 text of the SHA-256 digest of a string (txt = "" the digest  *)
(* itself, anything else an alteration of it).  SHA-256 is taken to be     *)
(* free of collisions: two digests are equal only for equal strings.       *)
(***************************************************************************)
Colon == [kind |-> "colon", txt |-> ":", val |-> 0, of |-> << >>]
Word(w) == [kind |-> "word", txt |-> w, val |-> 0, of |-> << >>]
Dec(n, form) == [kind |-> "dec", txt |-> form, val |-> n, of |-> << >>]
B64(data, alt) == [kind |-> "b64", txt |-> alt, val |-> 0, of |-> data]

I64Min == -I64Max - 1

\* i64 subtraction, wrapping at the width.
wrapping_sub(a, b) ==
    ((a - b + I64Max + 1) % (2 * (I64Max + 1))) - (I64Max + 1)

\* i64's Display.
to_string(n) == << Dec(n, "") >>

\* str::parse::<i64>: Some(value) of a decimal text that is in range.
parse_i64(str) ==
    IF /\ Len(str) = 1
       /\ str[1].kind = "dec"
       /\ str[1].val >= I64Min /\ str[1].val <= I64Max
    THEN Some(str[1].val)
    ELSE None

\* str::split(':').collect(): the stretches between the colons.
RECURSIVE split(_)
split(str) ==
    IF \A i \in 1..Len(str) : str[i] # Colon
    THEN << str >>
    ELSE LET i == CHOOSE j \in 1..Len(str) :
                     str[j] = Colon /\ \A h \in 1..(j - 1) : str[h] # Colon
         IN  << SubSeq(str, 1, i - 1) >> \o split(SubSeq(str, i + 1, Len(str)))

\* general_purpose::STANDARD.encode(Sha256(data))
sha256_base64(data) == << B64(data, "") >>

\* format!("{}:{}:{}", session_id, timestamp, self.secret)
token_data(session_id, timestamp, key) ==
    session_id \o << Colon >> \o to_string(timestamp) \o << Colon >> \o key

generate_token_data_reordered(key, session_id, t) ==
    to_string(t) \o << Colon >>
        \o sha256_base64(to_string(t) \o << Colon >> \o session_id \o << Colon >> \o key)

\* generate_token, called at wall-clock time t.
generate_token(key, session_id, t) ==
    to_string(t) \o << Colon >> \o sha256_base64(token_data(session_id, t, key))

validate_token_expires_early(key, token, session_id, t) ==
    LET parts == split(token)
    IN  IF Len(parts) # 2 THEN FALSE
        ELSE LET ts == parse_i64(parts[1])
             IN  IF ts = None THEN FALSE
                 ELSE IF wrapping_sub(t, unwrap(ts)) >= CsrfMaxAge THEN FALSE
                 ELSE token = to_string(unwrap(ts)) \o << Colon >>
                                 \o sha256_base64(token_data(session_id, unwrap(ts), key))

validate_token_digest_only(key, token, session_id, t) ==
    LET parts == split(token)
    IN  IF Len(parts) # 2 THEN FALSE
        ELSE LET ts == parse_i64(parts[1])
             IN  IF ts = None THEN FALSE
                 ELSE IF wrapping_sub(t, unwrap(ts)) > CsrfMaxAge THEN FALSE
                 ELSE parts[2] = sha256_base64(token_data(session_id, unwrap(ts), key))

\* validate_token, called at wall-clock time t.
validate_token(key, token, session_id, t) ==
    LET parts == split(token)
    IN  IF Len(parts) # 2 THEN FALSE
        ELSE LET ts == parse_i64(parts[1])
             IN  IF ts = None THEN FALSE
                 ELSE IF wrapping_sub(t, unwrap(ts)) > CsrfMaxAge THEN FALSE
                 ELSE token = to_string(unwrap(ts)) \o << Colon >>
                                 \o sha256_base64(token_data(session_id, unwrap(ts), key))

----------------------------------------------------------------------------
(***************************************************************************)
(* The codec in use: tokens are minted, altered by the client or made up,  *)
(* and validated, while the wall clock moves on.                           *)
(***************************************************************************)
Secrets == { << Word("test_secret") >>, << Word("other_secret") >> }

\* Session ids; one holds a ':' and a number, like the data that is hashed.
SessionIds ==
    { << Word("anonymous") >>, << Word("session1") >>,
      << Word("session1"), Colon, Dec(0, "") >> }

\* The instants the wall clock takes: around the minting and around the
\* expiry of a token minted at 0 or at 1.
UtcInstants == {0, 1, CsrfMaxAge - 1, CsrfMaxAge, CsrfMaxAge + 1, CsrfMaxAge + 2}

\* Tokens that were never minted: no colon at all, a timestamp beyond i64, and
\* the smallest timestamp, for which now - timestamp overflows.
MadeUpTokens ==
    { << Word("invalid_token") >>,
      << Dec(I64Max + 1, ""), Colon, B64(<< >>, "") >>,
      << Dec(I64Min, ""), Colon, B64(<< >>, "") >>,
      << >> }

\* What a client can do to a minted token.
alter(token, how) ==
    CASE how = "digest" -> [token EXCEPT ![Len(token)].txt = "altered"]
      [] how = "plus" -> [token EXCEPT ![1].txt = "+"]
      [] how = "later" -> [token EXCEPT ![1].val = @ + 1]
      [] how = "append" -> token \o << Colon, Word("x") >>
      [] how = "word" -> [token EXCEPT ![1] = Word("abc")]
      [] how = "nocolon" -> << token[1], token[Len(token)] >>

Alterations == {"digest", "plus", "later", "append", "word", "nocolon"}

CsrfInit ==
    /\ breakers = EmptyMap
    /\ calls = << >>
    /\ usage = None
    /\ now = 0
    /\ streak = [k \in BreakerKeys |-> 0]
    /\ reqs = << >>
    /\ utc = 0
    /\ secret \in Secrets
    /\ held = None
    /\ store = << >>
    /\ limiter = << >>
    /\ winCalls = << >>
    /\ lastOp = [op |-> "init"]

GenerateToken(session_id) ==
    /\ held' = Some([token |-> generate_token(secret, session_id, utc),
                     kind |-> "minted", session |-> session_id, at |-> utc])
    /\ lastOp' = [op |-> "generate_token"]
    /\ UNCHANGED <<utc, secret, notCsrf>>

AlterToken(how) ==
    /\ held # None
    /\ unwrap(held).kind = "minted"
    /\ held' = Some([unwrap(held) EXCEPT !.token = alter(@, how), !.kind = how])
    /\ lastOp' = [op |-> "alter"]
    /\ UNCHANGED <<utc, secret, notCsrf>>

MakeUpToken(token) ==
    /\ held' = Some([token |-> token, kind |-> "made up",
                     session |-> << >>, at |-> 0])
    /\ lastOp' = [op |-> "make up"]
    /\ UNCHANGED <<utc, secret, notCsrf>>

ValidateToken(session_id) ==
    /\ held # None
    /\ lastOp' = [op |-> "validate_token", session |-> session_id,
                  ret |-> validate_token(secret, unwrap(held).token, session_id, utc)]
    /\ UNCHANGED <<utc, secret, held, notCsrf>>

CsrfTime(t) ==
    /\ t > utc
    /\ utc' = t
    /\ lastOp' = [op |-> "advance"]
    /\ UNCHANGED <<secret, held, notCsrf>>

CsrfNext ==
    \/ \E session_id \in SessionIds : GenerateToken(session_id)
    \/ \E how \in Alterations : AlterToken(how)
    \/ \E token \in MadeUpTokens : MakeUpToken(token)
    \/ \E session_id \in SessionIds : ValidateToken(session_id)
    \/ \E t \in UtcInstants : CsrfTime(t)

SpecCsrf == CsrfInit /\ [][CsrfNext]_vars

----------------------------------------------------------------------------
(***************************************************************************)
(* Rate limiter (api-gateway/middleware/rate_limit.rs).                    *)
(***************************************************************************)

\* Duration::from_secs(secs), in ticks.
from_secs(secs) == secs * TicksPerSec

check_rate_limit_no_reset(st, key, t, max_requests, window_secs) ==
    LET e0 == IF key \in DOMAIN st THEN st[key] ELSE [count |-> 0, window_start |-> t]
        s1 == [k \in DOMAIN st \cup {key} |-> IF k = key THEN e0 ELSE st[k]]
    IN  IF e0.count >= max_requests
        THEN [store |-> s1, ret |-> "Err"]
        ELSE [store |-> [s1 EXCEPT ![key].count = @ + 1], ret |-> "Ok"]

check_rate_limit_off_by_one(st, key, t, max_requests, window_secs) ==
    LET e0 == IF key \in DOMAIN st THEN st[key] ELSE [count |-> 0, window_start |-> t]
        e1 == IF t - e0.window_start > from_secs(window_secs)
              THEN [count |-> 0, window_start |-> t]
              ELSE e0
        s1 == [k \in DOMAIN st \cup {key} |-> IF k = key THEN e1 ELSE st[k]]
    IN  IF e1.count > max_requests
        THEN [store |-> s1, ret |-> "Err"]
        ELSE [store |-> [s1 EXCEPT ![key].count = @ + 1], ret |-> "Ok"]

\* RateLimiter::check_rate_limit, called at time t: the store afterwards and
\* the result, Ok(()) or Err(()).
check_rate_limit(st, key, t, max_requests, window_secs) ==
    LET \* store.entry(key).or_insert(RateLimitEntry { count: 0, window_start: now })
        e0 == IF key \in DOMAIN st THEN st[key] ELSE [count |-> 0, window_start |-> t]
        \* Reset window if expired
        e1 == IF t - e0.window_start > from_secs(window_secs)
              THEN [count |-> 0, window_start |-> t]
              ELSE e0
        s1 == [k \in DOMAIN st \cup {key} |-> IF k = key THEN e1 ELSE st[k]]
    IN  IF e1.count >= max_requests
        THEN [store |-> s1, ret |-> "Err"]
        ELSE [store |-> [s1 EXCEPT ![key].count = @ + 1], ret |-> "Ok"]

----------------------------------------------------------------------------
(***************************************************************************)
(* A limiter built with some max_requests and window, and called for its   *)
(* keys while time passes.                                                 *)
(***************************************************************************)
RateKeys == {"user:u1", "ip:10.0.0.1"}
WindowSecsValues == {1}
RateMaxNow == RateMaxNowSecs * TicksPerSec

\* RateLimiter::new(max_requests, window_secs)
new(max_requests, window_secs) ==
    [max_requests |-> max_requests, window_secs |-> window_secs]

RateInit ==
    /\ breakers = EmptyMap
    /\ calls = << >>
    /\ usage = None
    /\ now = 0
    /\ streak = [k \in BreakerKeys |-> 0]
    /\ reqs = << >>
    /\ utc = 0
    /\ secret = << >>
    /\ held = None
    /\ store = << >>
    /\ limiter \in { new(n, w) : n \in 0..MaxRequests, w \in WindowSecsValues }
    /\ winCalls = [k \in RateKeys |-> 0]
    /\ lastOp = [op |-> "init"]

\* The calls a key has had in its current window, this one included, counted
\* up to max_requests + 1: the count starts again with an entry that is new or
\* whose window_start this call has moved.
CallsInWindow(key, after) ==
    IF \/ key \notin DOMAIN store
       \/ after[key].window_start # store[key].window_start
    THEN 1
    ELSE IF winCalls[key] > limiter.max_requests THEN winCalls[key]
    ELSE winCalls[key] + 1

CheckRateLimit(key) ==
    LET r == check_rate_limit(store, key, now, limiter.max_requests, limiter.window_secs)
    IN  /\ store' = r.store
        /\ winCalls' = [winCalls EXCEPT ![key] = CallsInWindow(key, r.store)]
        /\ lastOp' = [op |-> "check_rate_limit", key |-> key, ret |-> r.ret,
                      before |-> IF key \in DOMAIN store THEN Some(store[key]) ELSE None]
        /\ UNCHANGED <<now, limiter, notRate>>

RateTime(d) ==
    /\ now + d <= RateMaxNow
    /\ now' = now + d
    /\ lastOp' = [op |-> "advance", by |-> d]
    /\ UNCHANGED <<store, limiter, winCalls, notRate>>

RateNext ==
    \/ \E key \in RateKeys : CheckRateLimit(key)
    \/ \E d \in {1, TicksPerSec} : RateTime(d)

SpecRate == RateInit /\ [][RateNext]_vars

----------------------------------------------------------------------------
(***************************************************************************)
(* Concurrent check_rate_limit calls for one key.  A call waits for the    *)
(* write lock of the store (line 35), reads the clock and works on the     *)
(* entry while it holds the lock (lines 36-54), and gives the lock back    *)
(* when it returns (lines 51 and 55).                                      *)
(***************************************************************************)

Callers == {"c1", "c2", "c3"}

ConcKey == "user:u1"

NoCall == [pc |-> "idle", result |-> None]

may_write_shared(cs, c) == TRUE

\* store.write().await: granted when no other call holds the lock.
may_write(cs, c) == \A o \in DOMAIN cs : o # c => cs[o].pc # "locked"

RateConcInit ==
    /\ breakers = EmptyMap
    /\ usage = None
    /\ now = 0
    /\ streak = [k \in BreakerKeys |-> 0]
    /\ reqs = << >>
    /\ utc = 0
    /\ secret = << >>
    /\ held = None
    /\ store = << >>
    /\ limiter \in { new(n, w) : n \in 1..MaxRequests, w \in WindowSecsValues }
    /\ winCalls = [k \in RateKeys |-> 0]
    /\ calls = [c \in Callers |-> NoCall]
    /\ lastOp = [op |-> "init"]

\* The call is made and waits for the lock.
RlCall(c) ==
    /\ calls[c].pc = "idle"
    /\ calls' = [calls EXCEPT ![c].pc = "waiting"]
    /\ lastOp' = [op |-> "call", caller |-> c]
    /\ UNCHANGED <<store, now, limiter, winCalls, breakers, streak, reqs, utc, secret,
                   held, usage>>

\* The lock is granted; the call reads the clock and the entry and decides.
RlLock(c) ==
    /\ calls[c].pc = "waiting"
    /\ may_write(calls, c)
    /\ calls' = [calls EXCEPT ![c] =
          [pc |-> "locked",
           result |-> Some(check_rate_limit(store, ConcKey, now, limiter.max_requests,
                                            limiter.window_secs))]]
    /\ lastOp' = [op |-> "lock", caller |-> c]
    /\ UNCHANGED <<store, now, limiter, winCalls, breakers, streak, reqs, utc, secret,
                   held, usage>>

\* The entry is written as the call leaves it, the lock is dropped and the
\* call returns.
RlReturn(c) ==
    /\ calls[c].pc = "locked"
    /\ LET r == unwrap(calls[c].result)
       IN  /\ store' = (ConcKey :> r.store[ConcKey]) @@ store
           /\ calls' = [calls EXCEPT ![c] = [pc |-> "done", result |-> Some([ret |-> r.ret])]]
           /\ lastOp' = [op |-> "return", caller |-> c, ret |-> r.ret]
    /\ UNCHANGED <<now, limiter, winCalls, breakers, streak, reqs, utc, secret, held,
                   usage>>

\* Time passes, within the window that starts at 0.
RlTime ==
    /\ now + 1 <= limiter.window_secs * TicksPerSec
    /\ now' = now + 1
    /\ lastOp' = [op |-> "advance", by |-> 1]
    /\ UNCHANGED <<store, limiter, winCalls, calls, breakers, streak, reqs, utc, secret,
                   held, usage>>

RateConcNext ==
    \/ \E c \in Callers : RlCall(c)
    \/ \E c \in Callers : RlLock(c)
    \/ \E c \in Callers : RlReturn(c)
    \/ RlTime

SpecRateConc == RateConcInit /\ [][RateConcNext]_vars

----------------------------------------------------------------------------
(***************************************************************************)
(* The gateway's pipeline (api-gateway/main.rs and the middleware).        *)
(*                                                                         *)
(* A path is the sequence of its segments.  A request carries its method,  *)
(* path, X-CSRF-Token and x-user-id headers as the client sent them, the   *)
(* peer address, and the request extensions, which start empty.            *)
(***************************************************************************)

\* str::starts_with, segment by segment.
starts_with(path, prefix) ==
    Len(prefix) <= Len(path) /\ SubSeq(path, 1, Len(prefix)) = prefix

\* matches!(method, "POST" | "PUT" | "DELETE" | "PATCH")
StateChangingMethods == {"POST", "PUT", "DELETE", "PATCH"}

\* The paths CsrfMiddleware::call lets through unchecked (csrf.rs 113-116).
csrf_skips(path) ==
    \/ starts_with(path, <<"auth", "login">>)
    \/ starts_with(path, <<"auth", "register">>)
    \/ starts_with(path, <<"auth", "password-reset">>)
    \/ starts_with(path, <<"health">>)

\* req.extensions().get::<Uuid>().map(to_string).unwrap_or("anonymous")
csrf_session_id(req) ==
    IF "Uuid" \in DOMAIN req.extensions
    THEN << Word(req.extensions["Uuid"]) >>
    ELSE << Word("anonymous") >>

\* extract_rate_limit_key
extract_rate_limit_key(req) ==
    IF req.x_user_id # None THEN "user:" \o unwrap(req.x_user_id)
    ELSE IF req.ip # None THEN "ip:" \o unwrap(req.ip)
    ELSE "unknown"

\* route_to_service and proxy_request (handlers/gateway.rs): 404 for a path
\* no service owns, 400 for a method that is not forwarded, and otherwise what
\* the backend answers, taken to be 200.
proxy_request(req) ==
    IF ~(\E svc \in {"auth", "users", "roles", "policies", "audit", "metrics",
                     "costs", "budgets", "integrations", "llm"} :
            starts_with(req.path, <<"api", "v1", svc>>))
    THEN [status |-> 404, body |-> error_response("NotFound", "Route not found")]
    ELSE IF req.method \notin {"GET", "POST", "PUT", "DELETE", "PATCH"}
    THEN [status |-> 400, body |-> error_response("BadRequest", "Unsupported HTTP method")]
    ELSE [status |-> 200, body |-> text("backend")]

\* What a middleware's call decides: to forward the request (as it then
\* stands) to the service it wraps, or to answer it itself.
Forward(req) == [forward |-> TRUE, req |-> req]
Answer(req, status, body) ==
    [forward |-> FALSE, req |-> req, response |-> [status |-> status, body |-> body]]

csrf_call_without_header_passes(req, key, wall) ==
    IF req.method \notin StateChangingMethods THEN Forward(req)
    ELSE IF csrf_skips(req.path) THEN Forward(req)
    ELSE IF req.csrf = None
            \/ validate_token(key, unwrap(req.csrf), csrf_session_id(req), wall)
    THEN Forward(req)
    ELSE Answer(req, 403, json([success |-> FALSE,
                                error |-> "CSRF token validation failed"]))

\* CsrfMiddleware::call
csrf_call(req, key, wall) ==
    IF req.method \notin StateChangingMethods THEN Forward(req)
    ELSE IF csrf_skips(req.path) THEN Forward(req)
    ELSE IF /\ req.csrf # None
            /\ validate_token(key, unwrap(req.csrf), csrf_session_id(req), wall)
    THEN Forward(req)
    ELSE Answer(req, 403, json([success |-> FALSE,
                                error |-> "CSRF token validation failed"]))

\* is_public_endpoint (auth_middleware.rs)
is_public_endpoint(path) ==
    \/ starts_with(path, <<"api", "v1", "auth", "login">>)
    \/ starts_with(path, <<"api", "v1", "auth", "register">>)
    \/ starts_with(path, <<"api", "v1", "auth", "password-reset">>)
    \/ starts_with(path, <<"api", "v1", "health">>)
    \/ path = <<"health">>

\* An Authorization header value is absent, bytes that are no visible ASCII
\* (to_str fails), or a string: a first part up to and including its first
\* space, and the rest.  auth_str.strip_prefix("Bearer ").
strip_prefix_bearer(authorization) ==
    IF authorization = None THEN None
    ELSE IF unwrap(authorization).kind # "str" THEN None
    ELSE IF unwrap(authorization).prefix # "Bearer " THEN None
    ELSE Some(unwrap(authorization).rest)

\* A token is a JWT, with the key that signed it and the claims user_id and
\* exp, or text that is no JWT.  verify_token: decode::<Claims> with
\* Validation::default() checks the signature against the secret and that exp
\* has not passed (the library's leeway of a minute is left out: the instants
\* of the model are hours from every exp).
verify_token(token, jwt_secret, wall) ==
    IF token.kind = "jwt" /\ token.signed_with = jwt_secret /\ token.exp >= wall
    THEN [ok |-> TRUE, claims |-> [user_id |-> token.user_id, exp |-> token.exp]]
    ELSE [ok |-> FALSE]

auth_call_keeps_client_user_id(req, jwt_secret, wall) ==
    IF is_public_endpoint(req.path) THEN Forward(req)
    ELSE LET token == strip_prefix_bearer(req.authorization)
         IN  IF token = None
             THEN Answer(req, 401, text("Missing or invalid authentication"))
             ELSE LET v == verify_token(unwrap(token), jwt_secret, wall)
                  IN  IF v.ok
                      THEN Forward([req EXCEPT
                              !.x_user_id = IF @ = None THEN Some(v.claims.user_id) ELSE @,
                              !.extensions = ("Claims" :> v.claims) @@ @])
                      ELSE Answer(req, 401, text("Invalid token"))

\* AuthMiddlewareService::call
auth_call(req, jwt_secret, wall) ==
    IF is_public_endpoint(req.path) THEN Forward(req)
    ELSE LET token == strip_prefix_bearer(req.authorization)
         IN  IF token = None
             THEN Answer(req, 401, text("Missing or invalid authentication"))
             ELSE LET v == verify_token(unwrap(token), jwt_secret, wall)
                  IN  IF v.ok
                      THEN Forward([req EXCEPT
                              !.x_user_id = Some(v.claims.user_id),
                              !.extensions = ("Claims" :> v.claims) @@ @])
                      ELSE Answer(req, 401, text("Invalid token"))

\* AuthMiddleware.jwt_secret
JwtSecret == "jwt_secret"

Pipeline_limiter_outermost == << "rate_limit", "csrf" >>

\* The middleware main.rs wraps around the handler, outermost first:
\* TracingLogger and Cors pass every request of the model on, and neither
\* AuthMiddleware nor RateLimiter is registered.
Pipeline == << "csrf" >>

\* A request going down the stages and its response coming back: the
\* response, the limiter's store afterwards, whether the handler ran, and the
\* request as the last service reached saw it.
RECURSIVE run(_, _, _, _, _, _, _)
run(stages, req, st, t, wall, key, lim) ==
    IF stages = << >>
    THEN [response |-> proxy_request(req), store |-> st, handled |-> TRUE, seen |-> req]
    ELSE LET inner(req1, st1) == run(Tail(stages), req1, st1, t, wall, key, lim)
             answered(d, st1) ==
                [response |-> d.response, store |-> st1, handled |-> FALSE, seen |-> d.req]
         IN  CASE Head(stages) = "csrf" ->
                    LET d == csrf_call(req, key, wall)
                    IN  IF d.forward THEN inner(d.req, st) ELSE answered(d, st)
               [] Head(stages) = "auth" ->
                    LET d == auth_call(req, JwtSecret, wall)
                    IN  IF d.forward THEN inner(d.req, st) ELSE answered(d, st)
               [] Head(stages) = "rate_limit" ->
                    \* RateLimiterService::call
                    LET r == check_rate_limit(st, extract_rate_limit_key(req), t,
                                              lim.max_requests, lim.window_secs)
                    IN  IF r.ret = "Ok" THEN inner(req, r.store)
                        ELSE answered(Answer(req, 429, text("Rate limit exceeded")),
                                      r.store)

GatewaySecret == << Word("test_secret") >>

\* The X-CSRF-Token headers of the model's requests: none, the token minted at
\* second 0 for the anonymous session, that token with its digest altered, a
\* token minted for another session, and one that is no token.
GatewayTokens ==
    { None,
      Some(generate_token(GatewaySecret, << Word("anonymous") >>, 0)),
      Some(alter(generate_token(GatewaySecret, << Word("anonymous") >>, 0), "digest")),
      Some(generate_token(GatewaySecret, << Word("session1") >>, 0)),
      Some(<< Word("invalid_token") >>) }

GatewayPaths ==
    { <<"api", "v1", "policies">>, <<"api", "v1", "auth", "login">>,
      <<"auth", "login">> }

GatewayRequests ==
    [ method : {"GET", "POST"},
      path : GatewayPaths,
      csrf : GatewayTokens,
      x_user_id : {None, Some("u1")},
      ip : {Some("10.0.0.1")},
      authorization : {None},
      extensions : {<< >>} ]

GatewayInit ==
    /\ breakers = EmptyMap
    /\ calls = << >>
    /\ usage = None
    /\ now = 0
    /\ streak = [k \in BreakerKeys |-> 0]
    /\ reqs = << >>
    /\ utc = 0
    /\ secret = GatewaySecret
    /\ held = None
    /\ store = << >>
    /\ limiter \in { new(n, w) : n \in 1..MaxRequests, w \in WindowSecsValues }
    /\ winCalls = [k \in RateKeys |-> 0]
    /\ lastOp = [op |-> "init"]

\* One request through the pipeline.
GatewayRequest(req) ==
    LET r == run(Pipeline, req, store, now, utc, secret, limiter)
    IN  /\ store' = r.store
        /\ lastOp' = [op |-> "gateway", req |-> req, response |-> r.response,
                      handled |-> r.handled]
        /\ UNCHANGED <<now, limiter, winCalls, notRate>>

GatewayNext ==
    \/ \E req \in GatewayRequests : GatewayRequest(req)
    \/ \E key \in RateKeys : CheckRateLimit(key)
    \/ \E t \in UtcInstants : CsrfTime(t)

SpecGateway == GatewayInit /\ [][GatewayNext]_vars

----------------------------------------------------------------------------
(***************************************************************************)
(* Each middleware on its own, wrapped around the handler.                 *)
(***************************************************************************)

\* Authorization header values and bearer tokens.
Jwt(user_id, exp, signed_with) ==
    [kind |-> "jwt", user_id |-> user_id, exp |-> exp, signed_with |-> signed_with]
NoJwt == [kind |-> "text", user_id |-> "", exp |-> 0, signed_with |-> ""]
HeaderStr(prefix, rest) == [kind |-> "str", prefix |-> prefix, rest |-> rest]
HeaderBytes == [kind |-> "bytes", prefix |-> "", rest |-> NoJwt]

\* Seconds of the wall clock at which the model's tokens expire: within the
\* first day, and after the last instant of the model.
ExpSoon == 1000
ExpLate == 200000

AuthorizationValues ==
    { None,
      Some(HeaderBytes),
      Some(HeaderStr("Bearer ", Jwt("u1", ExpLate, JwtSecret))),
      Some(HeaderStr("Bearer ", Jwt("u1", ExpSoon, JwtSecret))),
      Some(HeaderStr("Bearer ", Jwt("u2", ExpLate, "other_secret"))),
      Some(HeaderStr("Bearer ", NoJwt)),
      Some(HeaderStr("bearer ", Jwt("u1", ExpLate, JwtSecret))),
      Some(HeaderStr("Basic ", NoJwt)) }

AuthRequests ==
    [ method : {"GET", "POST"},
      path : { <<"api", "v1", "policies">>, <<"api", "v1", "auth", "login">>,
               <<"auth", "login">>, <<"health">> },
      csrf : {None},
      x_user_id : {None, Some("u1"), Some("u2")},
      ip : {Some("10.0.0.1")},
      authorization : AuthorizationValues,
      extensions : {<< >>} ]

CsrfRequests ==
    [ method : {"GET", "HEAD", "OPTIONS", "POST", "PUT", "DELETE", "PATCH"},
      path : { <<"api", "v1", "policies">>, <<"api", "v1", "auth", "login">>,
               <<"auth", "login">>, <<"health">> },
      csrf : GatewayTokens,
      x_user_id : {None},
      ip : {Some("10.0.0.1")},
      authorization : {None},
      extensions : { << >>, "Uuid" :> "session1" } ]

StageInit == GatewayInit /\ limiter = new(1, 1)

\* A request to CsrfProtection wrapped around the handler.
CsrfCall(req) ==
    LET r == run(<< "csrf" >>, req, store, now, utc, secret, limiter)
    IN  /\ lastOp' = [op |-> "csrf_call", req |-> req, response |-> r.response,
                      handled |-> r.handled, seen |-> r.seen]
        /\ UNCHANGED <<store, now, limiter, winCalls, notRate>>

\* A request to AuthMiddleware wrapped around the handler.
AuthCall(req) ==
    LET r == run(<< "auth" >>, req, store, now, utc, secret, limiter)
    IN  /\ lastOp' = [op |-> "auth_call", req |-> req, response |-> r.response,
                      handled |-> r.handled, seen |-> r.seen]
        /\ UNCHANGED <<store, now, limiter, winCalls, notRate>>

\* The wall clock moves on: by a second, to the last second of a CSRF
\* token's life, and past it.
StageInstants == {1, CsrfMaxAge, CsrfMaxAge + 1}

StageTime(t) ==
    /\ t > utc
    /\ utc' = t
    /\ lastOp' = [op |-> "advance"]
    /\ UNCHANGED <<secret, held, notCsrf>>

CsrfStageNext ==
    \/ \E req \in CsrfRequests : CsrfCall(req)
    \/ \E t \in StageInstants : StageTime(t)

SpecCsrfStage == StageInit /\ [][CsrfStageNext]_vars

AuthStageNext ==
    \/ \E req \in AuthRequests : AuthCall(req)
    \/ \E t \in StageInstants : StageTime(t)

SpecAuthStage == StageInit /\ [][AuthStageNext]_vars

----------------------------------------------------------------------------
(***************************************************************************)
(* AuthMiddleware wrapped around CsrfProtection, and around RateLimiter:   *)
(* the stages that use the identity behind the stage that establishes it.  *)
(***************************************************************************)

\* X-CSRF-Token headers: none, and the tokens minted at second 0 for the
\* anonymous session and for the session of user u1.
IdentityTokens ==
    { None,
      Some(generate_token(GatewaySecret, << Word("anonymous") >>, 0)),
      Some(generate_token(GatewaySecret, << Word("u1") >>, 0)) }

IdentityAuthorizations ==
    { None,
      Some(HeaderStr("Bearer ", Jwt("u1", ExpLate, JwtSecret))),
      Some(HeaderStr("Bearer ", Jwt("u1", ExpSoon, JwtSecret))),
      Some(HeaderStr("Bearer ", Jwt("u2", ExpLate, "other_secret"))) }

AuthCsrfRequests ==
    [ method : {"GET", "POST", "DELETE"},
      path : { <<"api", "v1", "policies">>, <<"api", "v1", "auth", "login">> },
      csrf : IdentityTokens,
      x_user_id : {None},
      ip : {Some("10.0.0.1")},
      authorization : IdentityAuthorizations,
      extensions : {<< >>} ]

AuthRateRequests ==
    [ method : {"GET"},
      path : { <<"api", "v1", "policies">>, <<"api", "v1", "auth", "login">> },
      csrf : {None},
      x_user_id : {None, Some("u1"), Some("u2")},
      ip : {Some("10.0.0.1")},
      authorization : IdentityAuthorizations,
      extensions : {<< >>} ]

\* A request to AuthMiddleware wrapped around CsrfProtection.
AuthCsrfCall(req) ==
    LET r == run(<< "auth", "csrf" >>, req, store, now, utc, secret, limiter)
    IN  /\ lastOp' = [op |-> "auth_csrf_call", req |-> req, response |-> r.response,
                      handled |-> r.handled, seen |-> r.seen]
        /\ UNCHANGED <<store, now, limiter, winCalls, notRate>>

AuthCsrfNext ==
    \/ \E req \in AuthCsrfRequests : AuthCsrfCall(req)
    \/ \E t \in StageInstants : StageTime(t)

SpecAuthCsrf == StageInit /\ [][AuthCsrfNext]_vars

\* A request to AuthMiddleware wrapped around RateLimiter.
AuthRateCall(req) ==
    LET r == run(<< "auth", "rate_limit" >>, req, store, now, utc, secret, limiter)
    IN  /\ store' = r.store
        /\ lastOp' = [op |-> "auth_rate_call", req |-> req, response |-> r.response,
                      handled |-> r.handled, seen |-> r.seen]
        /\ UNCHANGED <<now, limiter, winCalls, notRate>>

AuthRateNext ==
    \/ \E req \in AuthRateRequests : AuthRateCall(req)
    \/ \E t \in StageInstants : StageTime(t)

SpecAuthRate == GatewayInit /\ [][AuthRateNext]_vars

----------------------------------------------------------------------------
(***************************************************************************)
(* calculate_cost on its own, over providers, models and token counts.     *)
(***************************************************************************)

CostProviders == {"openai", "anthropic", "azure", "unknown"}

CostModels ==
    {"gpt-4", "gpt-4-turbo", "gpt-3.5-turbo", "claude-3-opus", "claude-3-sonnet",
     "claude-3-haiku", "x"}

\* Token counts (i32): none, one, a thousand, a million, and a negative one.
TokenCounts == {-1, 0, 1, 1000, 1000000}

CostInit ==
    /\ breakers = EmptyMap
    /\ calls = << >>
    /\ now = 0
    /\ streak = [k \in BreakerKeys |-> 0]
    /\ reqs = << >>
    /\ utc = 0
    /\ secret = GatewaySecret
    /\ held = None
    /\ store = << >>
    /\ limiter = new(1, 1)
    /\ winCalls = [k \in RateKeys |-> 0]
    /\ usage \in [provider : CostProviders, model : CostModels,
                 prompt_tokens : TokenCounts, completion_tokens : TokenCounts]
    /\ lastOp = [op |-> "init"]

CalculateCost ==
    /\ lastOp' = [op |-> "calculate_cost",
                  cost |-> calculate_cost(usage.provider, usage.model,
                                          usage.prompt_tokens, usage.completion_tokens)]
    /\ UNCHANGED <<breakers, now, streak, reqs, utc, secret, held, store, limiter,
                   winCalls, usage, calls>>

CostNext == CalculateCost

SpecCost == CostInit /\ [][CostNext]_vars

----------------------------------------------------------------------------
(***************************************************************************)
(* C1: starting Closed with 0 failures, a key is still Closed after fewer  *)
(* than 5 consecutive record_failure calls and Open right after the 5th;   *)
(* record_success on an entry in any state leaves it with 0 failures,      *)
(* Closed, and no last_failure_time.                                       *)
(***************************************************************************)
C1_ThresholdAndReset ==
    \A key \in BreakerKeys :
        /\ streak[key] < 5 => StateOf(breakers, key) = "Closed"
        /\ (lastOp.op = "record_failure" /\ lastOp.key = key /\ streak[key] = 5)
              => StateOf(breakers, key) = "Open"
        /\ (lastOp.op = "record_success" /\ lastOp.key = key /\ key \in DOMAIN breakers)
              => breakers[key] =
                    [failures |-> 0, last_failure_time |-> None, state |-> "Closed"]

\* A record_success has just reset an entry that five failures had opened.
C1_Witness ==
    \E key \in BreakerKeys :
        /\ lastOp.op = "record_success" /\ lastOp.key = key
        /\ lastOp.was = "Open"
        /\ breakers[key].state = "Closed"

(***************************************************************************)
(* C2: a check of a key that is Open since t0 (the time of the failure     *)
(* that opened it) returns false and leaves it Open when made before       *)
(* t0+30s, and returns true and moves it to HalfOpen when made at or after *)
(* t0+30s.                                                                 *)
(***************************************************************************)
C2_RecoveryAt30s ==
    \A key \in BreakerKeys :
        (lastOp.op = "check_circuit_breaker" /\ lastOp.key = key /\ lastOp.was = "Open")
        => LET t0 == unwrap(lastOp.since)
           IN  IF now < t0 + 30 * TicksPerSec
               THEN lastOp.ret = FALSE /\ breakers[key].state = "Open"
               ELSE lastOp.ret = TRUE /\ breakers[key].state = "HalfOpen"

(***************************************************************************)
(* C4: an operation on one key (check_circuit_breaker, record_success or   *)
(* record_failure, also the failure that trips it Open) leaves every other *)
(* key as it was: present or absent as before, its entry the same, and     *)
(* check_circuit_breaker of it returning what it would have returned.      *)
(***************************************************************************)
BreakerOps == {"check_circuit_breaker", "record_success", "record_failure"}

C4_Isolation ==
    [][\A k1, k2 \in BreakerKeys :
          (k1 # k2 /\ lastOp'.op \in BreakerOps /\ lastOp'.key = k1)
          => /\ (k2 \in DOMAIN breakers') = (k2 \in DOMAIN breakers)
             /\ k2 \in DOMAIN breakers => breakers'[k2] = breakers[k2]
             /\ check_circuit_breaker(breakers', k2, now').ret =
                    check_circuit_breaker(breakers, k2, now).ret
             /\ check_circuit_breaker(breakers', k2, now').map[k2] =
                    check_circuit_breaker(breakers, k2, now).map[k2]
      ]_vars

\* The failure that trips one key Open has just happened while the other key
\* has an entry with failures of its own that is still Closed.
C4_Witness ==
    \E k1, k2 \in BreakerKeys :
        /\ k1 # k2
        /\ lastOp.op = "record_failure" /\ lastOp.key = k1 /\ lastOp.was = "Closed"
        /\ breakers[k1].state = "Open"
        /\ k2 \in DOMAIN breakers
        /\ breakers[k2].state = "Closed" /\ breakers[k2].failures > 0
        /\ check_circuit_breaker(breakers, k2, now).ret = TRUE

(***************************************************************************)
(* C3: a proxy_llm_request whose provider is outside the supported set     *)
(* returns the unsupported-provider error, and no step of it changes the   *)
(* breaker map: no entry is created, no failure counted, no state changed. *)
(***************************************************************************)
C3_UnknownProviderNoBreakerChange ==
    [][(/\ lastOp'.op \in {"begin", "respond"}
        /\ lastOp'.req.provider \notin {"openai", "anthropic", "google", "azure", "bedrock"})
       => /\ breakers' = breakers
          /\ lastOp'.op = "respond" =>
                (~lastOp'.response.ok /\ lastOp'.response.msg = "Unsupported provider")
      ]_vars

(***************************************************************************)
(* C7: under every secret and for every session id, a token that           *)
(* generate_token has just minted for the session (the clock has moved by  *)
(* a second at most) is accepted by validate_token for that session.       *)
(***************************************************************************)
C7_RoundTrip ==
    (/\ lastOp.op = "validate_token"
     /\ unwrap(held).kind = "minted"
     /\ lastOp.session = unwrap(held).session
     /\ utc - unwrap(held).at <= 1)
    => lastOp.ret = TRUE

\* A token for the session id that contains a ':' was minted and validated in
\* the same second.
C7_Witness ==
    /\ lastOp.op = "validate_token"
    /\ unwrap(held).kind = "minted"
    /\ lastOp.session = unwrap(held).session
    /\ Len(lastOp.session) > 1
    /\ utc = unwrap(held).at
    /\ lastOp.ret = TRUE

(***************************************************************************)
(* C8: validate_token answers with a boolean, and with true only for the   *)
(* very token generate_token makes for that session id, under the same     *)
(* secret, at the timestamp the token carries: a minted token with its     *)
(* digest altered, a token that is not a timestamp and a digest with one   *)
(* ':' between, and a token minted for another session id get false.       *)
(***************************************************************************)
C8_OnlyTheMintedToken ==
    lastOp.op = "validate_token"
    => /\ lastOp.ret \in BOOLEAN
       /\ lastOp.ret = TRUE =>
             /\ unwrap(held).token[1].kind = "dec"
             /\ unwrap(held).token =
                   generate_token(secret, lastOp.session, unwrap(held).token[1].val)
       /\ unwrap(held).kind \in {"digest", "append", "word", "nocolon", "made up"}
             => lastOp.ret = FALSE
       /\ (unwrap(held).kind = "minted" /\ unwrap(held).session # lastOp.session)
             => lastOp.ret = FALSE

\* A minted token with a plus sign put before its timestamp, which parses to
\* the same timestamp, has been refused within its lifetime.
C8_Witness ==
    /\ lastOp.op = "validate_token"
    /\ unwrap(held).kind = "plus"
    /\ lastOp.session = unwrap(held).session
    /\ utc - unwrap(held).at <= 1
    /\ lastOp.ret = FALSE

(***************************************************************************)
(* C9: a token minted at t0 for a session is accepted for that session at  *)
(* every time from t0 up to and including t0 + 86400 seconds, and refused  *)
(* at t0 + 86401 seconds and later.                                        *)
(***************************************************************************)
C9_Expiry ==
    (/\ lastOp.op = "validate_token"
     /\ unwrap(held).kind = "minted"
     /\ lastOp.session = unwrap(held).session)
    => lastOp.ret = (utc <= unwrap(held).at + 86400)

\* A token minted at second 1 has been accepted at 86401, its last second.
C9_Witness ==
    /\ lastOp.op = "validate_token"
    /\ unwrap(held).kind = "minted"
    /\ lastOp.session = unwrap(held).session
    /\ unwrap(held).at = 1
    /\ utc = 86401
    /\ lastOp.ret = TRUE

(***************************************************************************)
(* C5: with max_requests = N >= 1, the first N calls for a key within one  *)
(* window are allowed and the next is denied; a call made when more than   *)
(* window_secs have passed since the key's window_start is allowed again   *)
(* and leaves the entry with count 1 and window_start at the time of the   *)
(* call, while a call within the window leaves window_start as it was.     *)
(***************************************************************************)
C5_WindowBoundary ==
    \A key \in RateKeys :
        (lastOp.op = "check_rate_limit" /\ lastOp.key = key /\ limiter.max_requests >= 1)
        => /\ (lastOp.ret = "Ok") = (winCalls[key] <= limiter.max_requests)
           /\ lastOp.before # None =>
                 LET was == unwrap(lastOp.before)
                 IN  IF now - was.window_start > limiter.window_secs * TicksPerSec
                     THEN /\ lastOp.ret = "Ok"
                          /\ store[key] = [count |-> 1, window_start |-> now]
                     ELSE store[key].window_start = was.window_start

\* A key that had used up its window has been allowed again after the window,
\* with its count back at 1.
C5_Witness ==
    \E key \in RateKeys :
        /\ lastOp.op = "check_rate_limit" /\ lastOp.key = key
        /\ limiter.max_requests = 2
        /\ lastOp.before # None
        /\ unwrap(lastOp.before).count = 2
        /\ now - unwrap(lastOp.before).window_start > limiter.window_secs * TicksPerSec
        /\ lastOp.ret = "Ok"
        /\ store[key] = [count |-> 1, window_start |-> now]

(***************************************************************************)
(* C6: a POST, PUT, DELETE or PATCH request that is subject to the CSRF    *)
(* check and carries no token, or one that validates for no session, is    *)
(* answered 403, not 429, also when its rate-limit key is over its limit,  *)
(* and the limiter's store (so the counter of its key) is left as it was.  *)
(***************************************************************************)
NoValidToken(req, wall) ==
    \/ req.csrf = None
    \/ \A sid \in SessionIds : ~validate_token(secret, unwrap(req.csrf), sid, wall)

OverLimit(st, key) ==
    /\ key \in DOMAIN st
    /\ st[key].count >= limiter.max_requests
    /\ now - st[key].window_start <= limiter.window_secs * TicksPerSec

PriceTable ==
    [ pair \in { << "openai", "gpt-4" >>, << "openai", "gpt-4-turbo" >>,
                 << "openai", "gpt-3.5-turbo" >>, << "anthropic", "claude-3-opus" >>,
                 << "anthropic", "claude-3-sonnet" >>, << "anthropic", "claude-3-haiku" >> }
      |-> CASE pair[2] = "gpt-4" -> << f64(30, 0), f64(60, 0) >>
            [] pair[2] = "gpt-4-turbo" -> << f64(10, 0), f64(30, 0) >>
            [] pair[2] = "gpt-3.5-turbo" -> << f64(0, 2), f64(1, 2) >>
            [] pair[2] = "claude-3-opus" -> << f64(15, 0), f64(75, 0) >>
            [] pair[2] = "claude-3-sonnet" -> << f64(3, 0), f64(15, 0) >>
            [] pair[2] = "claude-3-haiku" -> << f64(0, 1), f64(1, 1) >> ]

C10_CostFormula ==
    lastOp.op = "calculate_cost" =>
        LET pair == << usage.provider, usage.model >>
            p == usage.prompt_tokens
            c == usage.completion_tokens
            million == 1000000
        IN  /\ pair \in DOMAIN PriceTable
                => lastOp.cost = p * PriceTable[pair][1] + c * PriceTable[pair][2]
            /\ pair \notin DOMAIN PriceTable
                => lastOp.cost = p * f64(1, 0) + c * f64(2, 0)
            /\ (pair = << "openai", "gpt-4" >> /\ p = million /\ c = million)
                => lastOp.cost = Dollars(90, 0)
            /\ (pair = << "anthropic", "claude-3-haiku" >> /\ p = million /\ c = million)
                => lastOp.cost = Dollars(1, 2)

\* The cost of a million tokens each way has been calculated for a model of
\* the table asked of a provider that is not its own.
C10_Witness ==
    /\ lastOp.op = "calculate_cost"
    /\ usage.provider = "azure"
    /\ usage.model = "gpt-4"
    /\ usage.prompt_tokens = 1000000
    /\ usage.completion_tokens = 1000000
    /\ lastOp.cost = Dollars(3, 0)

(***************************************************************************)
(* C11: a proxy_llm_request whose key the breaker refuses (Open, the       *)
(* timeout not yet passed) is answered 503 Service Unavailable and no      *)
(* adapter is called for it.                                               *)
(***************************************************************************)
C11_CircuitOpen503 ==
    (lastOp.op = "respond" /\ ~lastOp.allowed)
        => (lastOp.response.status = 503 /\ lastOp.calls = 0)

(***************************************************************************)
(* C12: when the adapter call or the provider match has produced the       *)
(* request's outcome, that outcome is the response whether or not          *)
(* record_metrics and record_audit_log succeed.                            *)
(***************************************************************************)
C12_TelemetryNeverReplaces ==
    (lastOp.op = "respond" /\ lastOp.result # None)
        => IF unwrap(lastOp.result).ok
           THEN lastOp.response.status = 200
           ELSE lastOp.response = unwrap(lastOp.result)

(***************************************************************************)
(* C13: a request that reaches the provider match calls one adapter, once, *)
(* and then updates the breaker of its key once, by record_success after   *)
(* an Ok and by record_failure after an Err, and after an Err the caller   *)
(* receives that error.                                                    *)
(***************************************************************************)
C13_OneCallOneUpdate ==
    [][(lastOp'.op = "respond" /\ lastOp'.result # None)
       => LET res == unwrap(lastOp'.result)
              key == lastOp'.req.key
          IN  /\ lastOp'.calls = 1
              /\ breakers' = IF res.ok THEN record_success(breakers, key)
                             ELSE record_failure(breakers, key, now)
              /\ ~res.ok => lastOp'.response = res
      ]_vars

(***************************************************************************)
(* C14 as stated: every request with max_tokens above 100000 is answered   *)
(* 400 and no adapter is called for it; stated here for the requests to a  *)
(* supported provider.                                                     *)
(***************************************************************************)
OverCeiling(op) ==
    /\ op.op \in {"begin", "respond"}
    /\ "max_tokens" \in DOMAIN op
    /\ op.max_tokens # None
    /\ unwrap(op.max_tokens) > 100000

C14_PolicyViolation400 ==
    (OverCeiling(lastOp) /\ lastOp.req.provider \in SupportedProviders)
        => (lastOp.op = "respond" /\ lastOp.response.status = 400 /\ lastOp.calls = 0)

(***************************************************************************)
(* C14 amended: a request with max_tokens above 100000 never gets past the *)
(* policy check, so no adapter is called for it, and it is answered 400    *)
(* when the breaker of its key admits it (the breaker is asked first, and  *)
(* a request it refuses is answered with the breaker's error).             *)
(***************************************************************************)
C14_PolicyViolation400WhenAdmitted ==
    OverCeiling(lastOp)
        => /\ lastOp.op = "respond"
           /\ lastOp.calls = 0
           /\ lastOp.allowed => (lastOp.response.status = 400 /\ lastOp.result = None)

\* A request over the ceiling for a supported provider has been answered 400.
C14_Witness ==
    /\ OverCeiling(lastOp)
    /\ lastOp.op = "respond"
    /\ lastOp.req.provider = "openai"
    /\ lastOp.allowed
    /\ lastOp.response.status = 400
    /\ lastOp.calls = 0

(***************************************************************************)
(* C15: every error response of the gateway has a JSON body with the       *)
(* members success (false), error and message.                             *)
(***************************************************************************)
ErrorEnvelope(body) ==
    /\ body.type = "json"
    /\ {"success", "error", "message"} \subseteq DOMAIN body.json
    /\ body.json.success = FALSE

C15_ErrorEnvelope ==
    (lastOp.op = "gateway" /\ lastOp.response.status >= 400)
        => ErrorEnvelope(lastOp.response.body)

(***************************************************************************)
(* C17: on a path that is not public, AuthMiddleware forwards the request  *)
(* to the service it wraps exactly when the Authorization header is        *)
(* "Bearer " followed by a token that verifies (a JWT signed with the      *)
(* middleware's secret and not expired), and answers 401 otherwise; the    *)
(* x-user-id header of a forwarded request is the token's user id,         *)
(* whatever the client sent.                                               *)
(***************************************************************************)
Verifies(authorization, wall) ==
    /\ authorization # None
    /\ unwrap(authorization).kind = "str"
    /\ unwrap(authorization).prefix = "Bearer "
    /\ unwrap(authorization).rest.kind = "jwt"
    /\ unwrap(authorization).rest.signed_with = JwtSecret
    /\ unwrap(authorization).rest.exp >= wall

C17_AuthStage ==
    (lastOp.op = "auth_call" /\ ~is_public_endpoint(lastOp.req.path))
        => /\ lastOp.handled <=> Verifies(lastOp.req.authorization, utc)
           /\ ~lastOp.handled => lastOp.response.status = 401
           /\ lastOp.handled =>
                lastOp.seen.x_user_id = Some(unwrap(lastOp.req.authorization).rest.user_id)

\* A request with a valid token of u1 and a client-supplied x-user-id of u2
\* has reached the handler as u1's.
C17_Witness ==
    /\ lastOp.op = "auth_call"
    /\ ~is_public_endpoint(lastOp.req.path)
    /\ lastOp.req.x_user_id = Some("u2")
    /\ lastOp.handled
    /\ lastOp.seen.x_user_id = Some("u1")

(***************************************************************************)
(* C18: for POST, PUT, DELETE and PATCH on a path the CSRF stage does not  *)
(* exempt, the wrapped service is invoked exactly when the request has an  *)
(* X-CSRF-Token that validate_token accepts for the request's session id   *)
(* (the Uuid of its extensions, else "anonymous"), and the answer is 403   *)
(* otherwise; GET, HEAD and OPTIONS always reach the wrapped service.      *)
(***************************************************************************)
C18_CsrfStage ==
    lastOp.op = "csrf_call" =>
        LET req == lastOp.req
            sid == IF "Uuid" \in DOMAIN req.extensions
                   THEN << Word(req.extensions["Uuid"]) >> ELSE << Word("anonymous") >>
        IN  /\ (req.method \in {"POST", "PUT", "DELETE", "PATCH"} /\ ~csrf_skips(req.path))
                => /\ lastOp.handled <=>
                        (req.csrf # None /\ validate_token(secret, unwrap(req.csrf), sid, utc))
                   /\ ~lastOp.handled => lastOp.response.status = 403
            /\ req.method \in {"GET", "HEAD", "OPTIONS"} => lastOp.handled

\* A PATCH without a token has been answered 403.
C18_Witness ==
    /\ lastOp.op = "csrf_call"
    /\ lastOp.req.method = "PATCH"
    /\ ~csrf_skips(lastOp.req.path)
    /\ lastOp.req.csrf = None
    /\ ~lastOp.handled
    /\ lastOp.response.status = 403

(***************************************************************************)
(* C19: a request on a public path (login, register, password-reset,       *)
(* health under /api/v1, the paths the auth stage lets through) that has   *)
(* no bearer token and no CSRF token reaches the handler, and the CSRF     *)
(* stage exempts the same paths.                                           *)
(***************************************************************************)
C19_PublicPathsReachDispatch ==
    (/\ lastOp.op = "gateway"
     /\ is_public_endpoint(lastOp.req.path)
     /\ lastOp.req.csrf = None
     /\ lastOp.req.authorization = None)
        => (lastOp.handled /\ csrf_skips(lastOp.req.path))

(***************************************************************************)
(* C16: the 200 response of a successful proxy call carries, in its cost   *)
(* member, calculate_cost of the provider, the model and the usage the     *)
(* adapter reported, which is the cost handed to record_metrics.           *)
(***************************************************************************)
C16_ResponseCarriesCost ==
    (lastOp.op = "respond" /\ lastOp.response.status = 200)
        => LET data == unwrap(lastOp.response.body.json.data)
           IN  /\ data.cost = calculate_cost(lastOp.req.provider, lastOp.req.model,
                                             data.usage.prompt_tokens,
                                             data.usage.completion_tokens)
               /\ data.cost = lastOp.metrics.cost

(***************************************************************************)
(* C20: while the breaker of a key is HalfOpen, at most one request for    *)
(* the key that was let through in that state has its adapter call made    *)
(* and its outcome not yet recorded.                                       *)
(***************************************************************************)
Probes(key) ==
    { r \in ReqIds : /\ reqs[r].pc \in {"upstream", "record"}
                     /\ reqs[r].calls = 1
                     /\ reqs[r].probe
                     /\ reqs[r].req.key = key }

C20_SingleProbe ==
    \A key \in DOMAIN breakers :
        breakers[key].state = "HalfOpen" => Cardinality(Probes(key)) <= 1

(***************************************************************************)
(* C21: whatever the interleaving of the proxy requests, the state of a    *)
(* key changes only from Closed to Open, from Open to HalfOpen, from       *)
(* HalfOpen to Closed and from HalfOpen to Open; never from Open to        *)
(* Closed.                                                                 *)
(***************************************************************************)
BreakerTransitions ==
    { <<"Closed", "Open">>, <<"Open", "HalfOpen">>,
      <<"HalfOpen", "Closed">>, <<"HalfOpen", "Open">> }

C21_TransitionsOnly ==
    [][\A key \in DOMAIN breakers' :
          StateOf(breakers, key) # breakers'[key].state
             => << StateOf(breakers, key), breakers'[key].state >> \in BreakerTransitions
      ]_vars

(***************************************************************************)
(* C22: one record_failure on a HalfOpen key leaves it Open with           *)
(* last_failure_time at the time of the call, and a check lets an Open key *)
(* through only when 30s or more have passed since its last_failure_time.  *)
(***************************************************************************)
C22_HalfOpenFailureReopens ==
    \A key \in BreakerKeys :
        /\ (lastOp.op = "record_failure" /\ lastOp.key = key /\ lastOp.was = "HalfOpen")
              => /\ breakers[key].state = "Open"
                 /\ breakers[key].last_failure_time = Some(now)
                 /\ ~check_circuit_breaker(breakers, key, now).ret
        /\ (lastOp.op = "check_circuit_breaker" /\ lastOp.key = key
                /\ lastOp.was = "Open" /\ lastOp.ret)
              => now - unwrap(lastOp.since) >= 30 * TicksPerSec

\* A failure has been recorded for a HalfOpen key some time after the failure
\* that had opened it.
C22_Witness ==
    \E key \in BreakerKeys :
        /\ lastOp.op = "record_failure" /\ lastOp.key = key
        /\ lastOp.was = "HalfOpen"
        /\ now > 0
        /\ breakers[key].state = "Open"

(***************************************************************************)
(* C23: a key is Open only with 5 or more failures counted, and a check    *)
(* moves a key to HalfOpen only when more than 30s have passed since its   *)
(* last_failure_time.                                                      *)
(***************************************************************************)
C23_OpenAndHalfOpenGuards ==
    \A key \in DOMAIN breakers :
        /\ breakers[key].state = "Open" => breakers[key].failures >= 5
        /\ (lastOp.op = "check_circuit_breaker" /\ lastOp.key = key
                /\ lastOp.was # "HalfOpen" /\ breakers[key].state = "HalfOpen")
              => /\ lastOp.was = "Open"
                 /\ lastOp.since # None
                 /\ now - unwrap(lastOp.since) > 30 * TicksPerSec

\* A check has just moved an Open key to HalfOpen.
C23_Witness ==
    \E key \in DOMAIN breakers :
        /\ lastOp.op = "check_circuit_breaker" /\ lastOp.key = key
        /\ lastOp.was = "Open"
        /\ breakers[key].state = "HalfOpen"
        /\ breakers[key].failures >= 5

(***************************************************************************)
(* C28: a request for an unsupported provider is answered 400 after any    *)
(* history of requests; stated here for the requests whose telemetry       *)
(* writes succeed.                                                         *)
(***************************************************************************)
C28_UnknownProviderAlways400 ==
    (/\ lastOp.op = "respond"
     /\ lastOp.req.provider \notin {"openai", "anthropic", "google", "azure", "bedrock"}
     /\ ~(~lastOp.response.ok /\ lastOp.response.err = "Database"))
        => lastOp.response.status = 400

(***************************************************************************)
(* C29: for every key of the map, the state is Closed exactly when fewer   *)
(* than 5 failures are counted, and last_failure_time is set whenever the  *)
(* state is Open or HalfOpen.                                              *)
(***************************************************************************)
C29_StateAgreesWithCount ==
    \A key \in DOMAIN breakers :
        /\ breakers[key].state = "Closed" <=> breakers[key].failures < 5
        /\ breakers[key].state \in {"Open", "HalfOpen"}
              => breakers[key].last_failure_time # None

\* One key is HalfOpen while the other is Closed with failures counted.
C29_Witness ==
    \E k1, k2 \in DOMAIN breakers :
        /\ breakers[k1].state = "HalfOpen"
        /\ breakers[k2].state = "Closed" /\ breakers[k2].failures = 4

(***************************************************************************)
(* C30: a request that check_policies rejects leaves the breaker map as it *)
(* was: no entry created, no state, count or time changed.                 *)
(***************************************************************************)
C30_PolicyRejectionFrame ==
    [][(/\ lastOp'.op = "respond"
        /\ lastOp'.policy # None
        /\ ~unwrap(lastOp'.policy).ok)
       => breakers' = breakers
      ]_vars

(***************************************************************************)
(* C24: when k concurrent check_rate_limit calls for one key, made within  *)
(* one window on a store without the key, have all returned, in whatever   *)
(* order they ran, min(k, max_requests) of them returned Ok and the count  *)
(* of the entry is min(k, max_requests); the count never exceeds           *)
(* max_requests.                                                           *)
(***************************************************************************)
Returned == { c \in Callers : calls[c].pc = "done" }
Allowed == { c \in Returned : unwrap(calls[c].result).ret = "Ok" }
CountOf(key) == IF key \in DOMAIN store THEN store[key].count ELSE 0
Min(a, b) == IF a <= b THEN a ELSE b

C24_NoLostIncrement ==
    /\ CountOf(ConcKey) <= limiter.max_requests
    /\ (\A c \in Callers : calls[c].pc \in {"idle", "done"})
          => /\ Cardinality(Allowed) = Min(Cardinality(Returned), limiter.max_requests)
             /\ CountOf(ConcKey) = Min(Cardinality(Returned), limiter.max_requests)

\* Three calls that were all waiting for the lock at once have returned, two
\* of them Ok.
C24_Witness ==
    /\ Returned = Callers
    /\ limiter.max_requests = 2
    /\ Cardinality(Allowed) = 2
    /\ store[ConcKey].count = 2

(***************************************************************************)
(* C25: for a POST, PUT, DELETE or PATCH that the auth stage has let       *)
(* through with a verified identity, the CSRF stage validates the          *)
(* X-CSRF-Token for that user's id as the session id: the request reaches  *)
(* the handler exactly when the token validates for that session, and is   *)
(* answered 403 otherwise.                                                 *)
(***************************************************************************)
C25_SessionIsIdentity ==
    (/\ lastOp.op = "auth_csrf_call"
     /\ lastOp.req.method \in {"POST", "PUT", "DELETE", "PATCH"}
     /\ ~is_public_endpoint(lastOp.req.path)
     /\ Verifies(lastOp.req.authorization, utc)
     /\ lastOp.req.csrf # None)
        => LET sid == << Word(unwrap(lastOp.req.authorization).rest.user_id) >>
               valid == validate_token(secret, unwrap(lastOp.req.csrf), sid, utc)
           IN  /\ lastOp.handled <=> valid
               /\ ~valid => lastOp.response.status = 403

(***************************************************************************)
(* C26: the entry the limiter counts a request against is that of          *)
(* "user:<id>" when the auth stage has verified <id> for the request, and  *)
(* that of "ip:<addr>" otherwise, also on the public paths, whatever       *)
(* x-user-id header the client sent.                                       *)
(***************************************************************************)
VerifiedKey(req, wall) ==
    IF ~is_public_endpoint(req.path) /\ Verifies(req.authorization, wall)
    THEN "user:" \o unwrap(req.authorization).rest.user_id
    ELSE "ip:" \o unwrap(req.ip)

C26_KeyIsVerifiedIdentity ==
    [][(lastOp'.op = "auth_rate_call" /\ lastOp'.response.status # 401)
       => \A k \in DOMAIN store' :
             (k \notin DOMAIN store \/ store'[k] # store[k])
                => k = VerifiedKey(lastOp'.req, utc)
      ]_vars

(***************************************************************************)
(* C27: a key that is Open does not stay Open for ever: as time advances   *)
(* and the key is checked again, it leaves Open (a check returns true and  *)
(* sets HalfOpen, unless a late success has closed it before), except      *)
(* where the clock of the model ends before the timeout of the key's last  *)
(* failure has passed; and a success recorded for a HalfOpen key closes    *)
(* it.                                                                     *)
(***************************************************************************)
ClockEnded == \A d \in Deltas : now + d > MaxNow

TimeoutPending(key) ==
    /\ breakers[key].last_failure_time # None
    /\ elapsed_as_secs(unwrap(breakers[key].last_failure_time), now) <= OpenTimeoutSecs

C27_OpenIsNotForever ==
    /\ \A key \in BreakerKeys :
          (StateOf(breakers, key) = "Open")
             ~> (\/ StateOf(breakers, key) # "Open"
                 \/ (ClockEnded /\ TimeoutPending(key)))
    /\ [](\A key \in BreakerKeys :
             (lastOp.op = "record_success" /\ lastOp.key = key /\ lastOp.was = "HalfOpen")
                => breakers[key].state = "Closed")

\* A success has closed a key that a check had moved from Open to HalfOpen.
C27_Witness ==
    \E key \in BreakerKeys :
        /\ lastOp.op = "record_success" /\ lastOp.key = key
        /\ lastOp.was = "HalfOpen"
        /\ breakers[key].state = "Closed"
        /\ now > OpenTimeoutSecs * TicksPerSec

====
